---- MODULE Spec2Model ----
(***************************************************************************)
(* Runtime type metadata of gosrc/runtime/type.go: offset resolution       *)
(* against the module registry and the reflectOffs side table, the         *)
(* structural equality check typesEqual, and the cross-module              *)
(* deduplication pass typelinksinit.                                       *)
(*                                                                         *)
(* Addresses are natural numbers below UintptrMod (uintptr arithmetic      *)
(* wraps), offsets are signed integers (int32).  A string is a sequence    *)
(* of one-character strings, so that s[1:] is Tail(s).                     *)
(***************************************************************************)
EXTENDS Integers, Sequences, FiniteSets, TLC

VARIABLES
    image,           \* image[m]: which module image lies at module m's address range
    layout,          \* which text section layout the modules were linked with
    nmods,           \* modules 1..nmods are linked into the firstmoduledata chain
    typemap,         \* typemap[m]: moduledata.typemap of module m (nil or a map)
    pinnedTypemaps,  \* the maps typelinksinit has pinned, by module
    reflectOffs,     \* the reflectOffs side table: lock, next, m, minv
    call,            \* the last call of a pure function and what it returned
    pc,              \* pc[g]: where goroutine g is in its resolver call
    op,              \* op[g]: the call goroutine g is making
    thrown           \* TRUE once some goroutine has called throw

vars == <<image, layout, nmods, typemap, pinnedTypemaps, reflectOffs, call, pc, op, thrown>>

---------------------------------------------------------------------------
(* Bounds of the model *)

MaxModules == 3
MaxOff == 18
NameSlots == 12      \* offsets 1..NameSlots of a module's type data hold name records
ModSize == 17        \* etypes - types of every module
MaxRegistered == 2
NumGoroutines == 2

(* A Go map is the set of its <<key, value>> pairs; a map variable that    *)
(* may be nil carries a nil flag.                                          *)
NilMap == [nil |-> TRUE, entries |-> {}]
EmptyMap == [nil |-> FALSE, entries |-> {}]
HasKey(entries, k) == \E e \in entries : e[1] = k
Lookup(entries, k) == (CHOOSE e \in entries : e[1] = k)[2]
MapPut(entries, k, x) == {e \in entries : e[1] # k} \cup {<<k, x>>}

NoCall == [fn |-> "none"]

---------------------------------------------------------------------------
(* tflag bits, kinds and the variadic bit of functype.outCount *)

tflagUncommon == 1
tflagExtraStar == 2
tflagNamed == 4

kindBool == 1
kindInt == kindBool + 1
kindComplex128 == 16
kindArray == 17
kindChan == 18
kindFunc == 19
kindInterface == 20
kindMap == 21
kindPtr == 22
kindSlice == 23
kindString == 24
kindStruct == 25
kindUnsafePointer == 26
kindMask == 31
kindDirectIface == kindMask + 1
variadicBit == 32768

HasFlag(bits, flag) == (bits \div flag) % 2 = 1

---------------------------------------------------------------------------
(* Layout of a module's type data: name records at offsets 1..NameSlots,   *)
(* type descriptors after them.  Every module carries the same name        *)
(* records.  A name record is its identifier, its tag and the nameOff of   *)
(* its package path (0: the has-package-path bit is clear).                *)

NameTable ==
    << [name |-> <<"*", "p", ".", "S">>, tag |-> <<>>,    pkgPath |-> 0],   \* 1
       [name |-> <<"i", "n", "t">>,      tag |-> <<>>,    pkgPath |-> 0],   \* 2
       [name |-> <<"s", "t", "r">>,      tag |-> <<>>,    pkgPath |-> 0],   \* 3
       [name |-> <<"p">>,                tag |-> <<>>,    pkgPath |-> 0],   \* 4
       [name |-> <<"n", "x">>,           tag |-> <<>>,    pkgPath |-> 0],   \* 5
       [name |-> <<"v">>,                tag |-> <<>>,    pkgPath |-> 0],   \* 6
       [name |-> <<"v">>,                tag |-> <<"j">>, pkgPath |-> 0],   \* 7
       [name |-> <<"f", "(", ")">>,      tag |-> <<>>,    pkgPath |-> 0],   \* 8
       [name |-> <<"I">>,                tag |-> <<>>,    pkgPath |-> 0],   \* 9
       [name |-> <<"m">>,                tag |-> <<>>,    pkgPath |-> 4],   \* 10
       [name |-> <<"[", "]">>,           tag |-> <<>>,    pkgPath |-> 0],   \* 11
       [name |-> <<"q">>,                tag |-> <<>>,    pkgPath |-> 0] >> \* 12

N(i) == i                    \* nameOff of name record i
T(slot) == NameSlots + slot  \* typeOff of the descriptor in slot `slot`

(* A descriptor as the toolchain lays it out: the _type header, the        *)
(* kind-specific trailer and the uncommontype.  References inside an       *)
(* image are offsets from the module's types (0: nil).                     *)
Descriptor(kind, tflag, hash, str) ==
    [kind |-> kind, tflag |-> tflag, hash |-> hash, str |-> str,
     upkg |-> 0,                      \* uncommontype.pkgpath
     elem |-> 0, key |-> 0, len |-> 0, dir |-> 0,
     inCount |-> 0, outCount |-> 0, inl |-> <<>>,
     pkgPath |-> 0, fields |-> <<>>, mhdr |-> <<>>]

Field(name, typ, offsetAnon) == [name |-> name, typ |-> typ, offsetAnon |-> offsetAnon]
IMethod(name, ityp) == [name |-> name, ityp |-> ityp]

IntType == Descriptor(kindInt, tflagNamed, 3, N(2))
StructS(tflag, upkg, pkgPath, vname, vanon) ==
    [Descriptor(kindStruct, tflag, 1, N(1)) EXCEPT
        !.upkg = upkg, !.pkgPath = pkgPath,
        !.fields = <<Field(N(5), T(2), 0), Field(vname, T(3), vanon)>>]
PtrS == [Descriptor(kindPtr, 0, 2, N(1)) EXCEPT !.elem = T(1)]
NamedS == tflagUncommon + tflagExtraStar + tflagNamed
IfaceI == [Descriptor(kindInterface, 0, 4, N(9)) EXCEPT
              !.pkgPath = N(4), !.mhdr = <<IMethod(N(10), T(2))>>]

Images ==
    << \* 1: type S struct { nx *S; v int }, *S, int
       [types |-> <<StructS(NamedS, N(4), N(4), N(6), 16), PtrS, IntType>>,
        typelinks |-> <<T(1), T(2), T(3)>>],
       \* 2: as 1, with v embedded (offsetAnon differs)
       [types |-> <<StructS(NamedS, N(4), N(4), N(6), 17), PtrS, IntType>>,
        typelinks |-> <<T(1), T(2), T(3)>>],
       \* 3: as 1, with v of a string type whose hash collides with int's
       [types |-> <<StructS(NamedS, N(4), N(4), N(6), 16), PtrS,
                    Descriptor(kindString, tflagNamed, 3, N(3))>>,
        typelinks |-> <<T(2), T(1), T(3)>>],
       \* 4: as 1, all fields exported: the trailer's package path is empty
       [types |-> <<StructS(NamedS, N(4), 0, N(6), 16), PtrS, IntType>>,
        typelinks |-> <<T(1), T(2)>>],
       \* 5: interface { m() }, func(), int
       [types |-> <<IfaceI, Descriptor(kindFunc, 0, 5, N(8)), IntType>>,
        typelinks |-> <<T(1), T(2), T(3)>>],
       \* 6: interface { m(int) int }, func(int) int, int
       [types |-> <<IfaceI,
                    [Descriptor(kindFunc, 0, 5, N(8)) EXCEPT
                        !.inCount = 1, !.outCount = 1, !.inl = <<T(3), T(3)>>],
                    [IntType EXCEPT !.kind = kindInt + kindDirectIface]>>,
        typelinks |-> <<T(3), T(1), T(2)>>],
       \* 7: map[int][]int, []int, int
       [types |-> <<[Descriptor(kindMap, 0, 6, N(11)) EXCEPT !.key = T(3), !.elem = T(2)],
                    [Descriptor(kindSlice, 0, 7, N(11)) EXCEPT !.elem = T(3)],
                    IntType>>,
        typelinks |-> <<T(1), T(2), T(3)>>],
       \* 8: [2]int, chan int, int with uncommon data of package q
       [types |-> <<[Descriptor(kindArray, 0, 8, N(11)) EXCEPT !.elem = T(3), !.len = 2],
                    [Descriptor(kindChan, 0, 9, N(11)) EXCEPT !.elem = T(3), !.dir = 3],
                    [Descriptor(kindInt, tflagNamed + tflagUncommon, 3, N(2)) EXCEPT
                        !.upkg = N(12)]>>,
        typelinks |-> <<T(1), T(2), T(3)>>],
       \* 9: [3]int, <-chan int, int
       [types |-> <<[Descriptor(kindArray, 0, 8, N(11)) EXCEPT !.elem = T(3), !.len = 3],
                    [Descriptor(kindChan, 0, 9, N(11)) EXCEPT !.elem = T(3), !.dir = 1],
                    IntType>>,
        typelinks |-> <<T(1), T(2), T(3)>>],
       \* 10: func(int) string, string, int
       [types |-> <<[Descriptor(kindFunc, 0, 5, N(8)) EXCEPT
                        !.inCount = 1, !.outCount = 1, !.inl = <<T(3), T(2)>>],
                    Descriptor(kindString, tflagNamed, 3, N(3)),
                    IntType>>,
        typelinks |-> <<T(1), T(2), T(3)>>] >>

NumImages == Len(Images)

ModStride == 2 * ModSize
UintptrMod == 2 * (MaxModules + 3) * ModStride

AllModules == 1 .. MaxModules
types(m) == m * ModStride
etypes(m) == types(m) + ModSize
HeapBase == (MaxModules + 2) * ModStride

(* uintptr(off) of a signed offset, and uintptr addition *)
Uintptr(off) == off % UintptrMod
AddPtr(a, b) == (a + b) % UintptrMod

(* The descriptor at address t, and a reference of it as an address *)
Mem(t) == Images[image[t \div ModStride]].types[(t % ModStride) - NameSlots]
Ref(t, off) == IF off = 0 THEN 0 ELSE (t \div ModStride) * ModStride + off
typelinks(m) == Images[image[m]].typelinks

---------------------------------------------------------------------------
(* Results of a call: a returned value, or a throw (fatal, no value)       *)

Ret(v) == [tag |-> "ret", val |-> v]
Throw(msg) == [tag |-> "throw", msg |-> msg]

(* The linked modules, in the order of the firstmoduledata chain *)
activeModules == [i \in 1 .. nmods |-> i]

(* The first linked module whose [types, etypes) holds base (0: none) *)
FindModule(base) ==
    LET owners == {m \in 1 .. nmods : base >= types(m) /\ base < etypes(m)}
    IN  IF owners = {} THEN 0 ELSE CHOOSE m \in owners : \A o \in owners : m <= o

(* resolveNameOff that returns what the registry lookup gave without     *)
(* looking at found                                                        *)
resolveNameOffUnchecked(ptrInModule, off) ==
    IF off = 0 THEN Ret(0)
    ELSE IF FindModule(ptrInModule) # 0
         THEN IF AddPtr(types(FindModule(ptrInModule)), Uintptr(off)) > etypes(FindModule(ptrInModule))
              THEN Throw("runtime: name offset out of range")
              ELSE Ret(AddPtr(types(FindModule(ptrInModule)), Uintptr(off)))
         ELSE IF HasKey(reflectOffs.m, off) THEN Ret(Lookup(reflectOffs.m, off)) ELSE Ret(0)

resolveNameOff(ptrInModule, off) ==
    IF off = 0 THEN Ret(0)
    ELSE LET base == ptrInModule
             md == FindModule(base)
         IN  IF md # 0
             THEN LET res == AddPtr(types(md), Uintptr(off))
                  IN  IF res > etypes(md)
                      THEN Throw("runtime: name offset out of range")
                      ELSE Ret(res)
             ELSE IF ~HasKey(reflectOffs.m, off)
                  THEN Throw("runtime: name offset base pointer out of range")
                  ELSE Ret(Lookup(reflectOffs.m, off))

(* md.typemap[off] of a Go map that may be nil: 0 when there is no entry *)
TypemapLookup(tm, off) ==
    IF ~tm.nil /\ HasKey(tm.entries, off) THEN Lookup(tm.entries, off) ELSE 0

resolveTypeOff(tms, ptrInModule, off) ==
    IF off = 0 THEN Ret(0)
    ELSE LET base == ptrInModule
             md == FindModule(base)
         IN  IF md = 0
             THEN LET res == IF HasKey(reflectOffs.m, off) THEN Lookup(reflectOffs.m, off) ELSE 0
                  IN  IF res = 0
                      THEN Throw("runtime: type offset base pointer out of range")
                      ELSE Ret(res)
             ELSE IF TypemapLookup(tms[md], off) # 0
                  THEN Ret(TypemapLookup(tms[md], off))
                  ELSE LET res == AddPtr(types(md), Uintptr(off))
                       IN  IF res > etypes(md)
                           THEN Throw("runtime: type offset out of range")
                           ELSE Ret(res)

(* The text of a module: text, etext and textsectmap.  A layout gives the  *)
(* sections relative to text and the size of the text.                     *)
Sect(vaddr, length, base) == [vaddr |-> vaddr, length |-> length, baseaddr |-> base]

Layouts ==
    << [sects |-> <<>>, size |-> 8],                             \* no section map
       [sects |-> <<Sect(0, 8, 0)>>, size |-> 8],                \* one section
       [sects |-> <<Sect(0, 4, 0), Sect(4, 4, 6)>>, size |-> 10],\* two, the second moved
       [sects |-> <<Sect(0, 3, 0), Sect(5, 3, 5)>>, size |-> 8] >> \* two, a hole between

NumLayouts == Len(Layouts)
text(m) == etypes(m) + 2
etext(m) == text(m) + Layouts[layout].size
textsectmap(m) ==
    [i \in 1 .. Len(Layouts[layout].sects) |->
        [Layouts[layout].sects[i] EXCEPT !.baseaddr = text(m) + @]]

GOARCH == "amd64"

(* the loop over md.textsectmap, from section i on: res of the first       *)
(* section that holds off, 0 when none does                                *)
RECURSIVE SectionAddr(_, _, _)
SectionAddr(sects, off, i) ==
    IF i > Len(sects) THEN 0
    ELSE IF Uintptr(off) >= sects[i].vaddr /\ Uintptr(off) <= sects[i].vaddr + sects[i].length
         THEN (sects[i].baseaddr + Uintptr(off) - sects[i].vaddr) % UintptrMod
         ELSE SectionAddr(sects, off, i + 1)

(* textOff past the search for the module, md being the module found *)
TextAddr(md, off) ==
    IF Len(textsectmap(md)) > 1
    THEN SectionAddr(textsectmap(md), off, 1)
    ELSE AddPtr(text(md), Uintptr(off))

textOff(t, off) ==
    IF FindModule(t) = 0
    THEN IF ~HasKey(reflectOffs.m, off) \/ Lookup(reflectOffs.m, off) = 0
         THEN Throw("runtime: text offset base pointer out of range")
         ELSE Ret(Lookup(reflectOffs.m, off))
    ELSE IF TextAddr(FindModule(t), off) > etext(FindModule(t)) /\ GOARCH # "wasm"
         THEN Throw("runtime: text offset out of range")
         ELSE Ret(TextAddr(FindModule(t), off))

---------------------------------------------------------------------------
(* Name records *)

NameRec(n) == NameTable[n % ModStride]

name_name(n) == IF n = 0 THEN <<>> ELSE NameRec(n).name

name_tag(n) == NameRec(n).tag

name_pkgPath(n) ==
    IF n = 0 \/ NameRec(n).pkgPath = 0 THEN <<>>
    ELSE name_name(resolveNameOff(n, NameRec(n).pkgPath).val)

---------------------------------------------------------------------------
(* Accessors of a descriptor: t is its address and mt what lies there *)

KindOf(mt) == mt.kind % (kindMask + 1)

type_nameOff(t, off) == resolveNameOff(t, off)

type_string(t, mt) ==
    IF HasFlag(mt.tflag, tflagExtraStar)
    THEN Tail(name_name(type_nameOff(t, mt.str).val))
    ELSE name_name(type_nameOff(t, mt.str).val)

(* uncommon() # nil *)
HasUncommon(mt) == HasFlag(mt.tflag, tflagUncommon)

(* pkgpath that looks at the kind before the uncommon data *)
type_pkgpathKindFirst(t, mt) ==
    IF KindOf(mt) = kindStruct \/ KindOf(mt) = kindInterface
    THEN name_name(Ref(t, mt.pkgPath))
    ELSE IF HasUncommon(mt)
         THEN name_name(type_nameOff(t, mt.upkg).val)
         ELSE <<>>

type_pkgpath(t, mt) ==
    IF HasUncommon(mt)
    THEN name_name(type_nameOff(t, mt.upkg).val)
    ELSE IF KindOf(mt) = kindStruct \/ KindOf(mt) = kindInterface
         THEN name_name(Ref(t, mt.pkgPath))
         ELSE <<>>

pkgpath(t) == type_pkgpath(t, Mem(t))

functype_in(t, mt) ==
    [i \in 1 .. mt.inCount |-> Ref(t, mt.inl[i])]

functype_out(t, mt) ==
    [i \in 1 .. (mt.outCount % variadicBit) |-> Ref(t, mt.inl[mt.inCount + i])]

---------------------------------------------------------------------------
(* typesEqual.  The seen map is passed by reference in the code: a call    *)
(* takes the map as it stands and hands it back with what it added.  A     *)
(* call's state is [seen, calls]; its result adds res and thrown.          *)

Result(st, res) == [res |-> res, thrown |-> FALSE, seen |-> st.seen, calls |-> st.calls]
Fatal(st) == [res |-> FALSE, thrown |-> TRUE, seen |-> st.seen, calls |-> st.calls]
After(r) == [seen |-> r.seen, calls |-> r.calls]

(* a memo that is looked up by the first descriptor of the pair only *)
SeenByFirst(tp, seen) == \E p \in seen : p[1] = tp[1]

(* _, ok := seen[tp] *)
Seen(tp, seen) == tp \in seen
(* a revisited pair reported as unequal *)
SeenAnswerUnequal == FALSE

(* what a call answers for a pair that is already in seen *)
SeenAnswer == TRUE

(* seen[tp] = struct{}{} *)
MarkSeen(tp, seen) == seen \cup {tp}

(* What typesEqual does for a kind, in the order of the code: a test that  *)
(* returns false when it fails, or a recursive call on a pair of           *)
(* component types that returns false when the call does.                  *)
Test(ok) == [call |-> FALSE, ok |-> ok]
Recurse(t, v) == [call |-> TRUE, t |-> t, v |-> v]

(* the loops over tin/vin and tout/vout *)
SeqSteps(ts, vs) == [i \in 1 .. Len(ts) |-> Recurse(ts[i], vs[i])]

RECURSIVE Flatten(_)
Flatten(seqs) == IF seqs = <<>> THEN <<>> ELSE Head(seqs) \o Flatten(Tail(seqs))

(* one round of the loop over it.mhdr *)
MethodSteps(tms, t, v, tm, vm) ==
    << Test(name_name(resolveNameOff(t, tm.name).val)
              = name_name(resolveNameOff(v, vm.name).val)),
       Test(name_pkgPath(resolveNameOff(t, tm.name).val)
              = name_pkgPath(resolveNameOff(v, vm.name).val)),
       Recurse(resolveTypeOff(tms, t, tm.ityp).val,
               resolveTypeOff(tms, v, vm.ityp).val) >>

(* one round of the loop over st.fields *)
FieldSteps(t, v, tf, vf) ==
    << Test(name_name(Ref(t, tf.name)) = name_name(Ref(v, vf.name))),
       Recurse(Ref(t, tf.typ), Ref(v, vf.typ)),
       Test(name_tag(Ref(t, tf.name)) = name_tag(Ref(v, vf.name))),
       Test(tf.offsetAnon = vf.offsetAnon) >>

ElemStep(t, v, mt, mv) == Recurse(Ref(t, mt.elem), Ref(v, mv.elem))

(* the switch on kind *)
KindSteps(tms, t, v, mt, mv, kind) ==
    CASE kind = kindArray -> <<ElemStep(t, v, mt, mv), Test(mt.len = mv.len)>>
      [] kind = kindChan -> <<Test(mt.dir = mv.dir), ElemStep(t, v, mt, mv)>>
      [] kind = kindFunc ->
            IF mt.outCount # mv.outCount \/ mt.inCount # mv.inCount
            THEN <<Test(FALSE)>>
            ELSE SeqSteps(functype_in(t, mt), functype_in(v, mv))
                 \o SeqSteps(functype_out(t, mt), functype_out(v, mv))
      [] kind = kindInterface ->
            IF name_name(Ref(t, mt.pkgPath)) # name_name(Ref(v, mv.pkgPath))
            THEN <<Test(FALSE)>>
            ELSE IF Len(mt.mhdr) # Len(mv.mhdr) THEN <<Test(FALSE)>>
            ELSE Flatten([i \in 1 .. Len(mt.mhdr) |->
                             MethodSteps(tms, t, v, mt.mhdr[i], mv.mhdr[i])])
      [] kind = kindMap ->
            <<Recurse(Ref(t, mt.key), Ref(v, mv.key)), ElemStep(t, v, mt, mv)>>
      [] kind = kindPtr \/ kind = kindSlice -> <<ElemStep(t, v, mt, mv)>>
      [] kind = kindStruct ->
            IF Len(mt.fields) # Len(mv.fields) THEN <<Test(FALSE)>>
            ELSE IF name_name(Ref(t, mt.pkgPath)) # name_name(Ref(v, mv.pkgPath))
            THEN <<Test(FALSE)>>
            ELSE Flatten([i \in 1 .. Len(mt.fields) |->
                             FieldSteps(t, v, mt.fields[i], mv.fields[i])])

KnownKind(kind) ==
    \/ kindBool <= kind /\ kind <= kindComplex128
    \/ kind \in {kindString, kindUnsafePointer, kindArray, kindChan, kindFunc,
                 kindInterface, kindMap, kindPtr, kindSlice, kindStruct}

(* everything typesEqual compares of the two descriptors before the        *)
(* switch: kind, string, and uncommon data with its package path           *)
HeadersEqual(t, v, mt, mv) ==
    /\ KindOf(mt) = KindOf(mv)
    /\ type_string(t, mt) = type_string(v, mv)
    /\ (HasUncommon(mt) \/ HasUncommon(mv)) =>
          /\ HasUncommon(mt) /\ HasUncommon(mv)
          /\ name_name(type_nameOff(t, mt.upkg).val) = name_name(type_nameOff(v, mv.upkg).val)

(* the kinds that are equal once the headers are *)
PlainKind(kind) ==
    \/ kindBool <= kind /\ kind <= kindComplex128
    \/ kind = kindString \/ kind = kindUnsafePointer

RECURSIVE typesEqual(_, _, _, _)
RECURSIVE RunSteps(_, _, _, _)

(* the steps from step i on; true when none returns false *)
RunSteps(tms, steps, i, st) ==
    IF i > Len(steps) THEN Result(st, TRUE)
    ELSE LET r == IF steps[i].call
                  THEN typesEqual(tms, steps[i].t, steps[i].v, st)
                  ELSE Result(st, steps[i].ok)
         IN  IF ~r.res THEN r ELSE RunSteps(tms, steps, i + 1, After(r))

(* typesEqual past the seen map and the test t == v *)
CompareTypes(tms, t, v, mt, mv, st) ==
    IF ~HeadersEqual(t, v, mt, mv) THEN Result(st, FALSE)
    ELSE IF PlainKind(KindOf(mt)) THEN Result(st, TRUE)
    ELSE IF ~KnownKind(KindOf(mt)) THEN Fatal(st)
    ELSE RunSteps(tms, KindSteps(tms, t, v, mt, mv, KindOf(mt)), 1, st)

Called(st) == [st EXCEPT !.calls = @ + 1]

typesEqual(tms, t, v, st0) ==
    IF Seen(<<t, v>>, st0.seen) THEN Result(Called(st0), SeenAnswer)
    ELSE IF t = v
         THEN Result([Called(st0) EXCEPT !.seen = MarkSeen(<<t, v>>, @)], TRUE)
         ELSE CompareTypes(tms, t, v, Mem(t), Mem(v),
                           [Called(st0) EXCEPT !.seen = MarkSeen(<<t, v>>, @)])

(* seen := map[_typePair]struct{}{} *)
EmptySeen == [seen |-> {}, calls |-> 0]

---------------------------------------------------------------------------
(* typelinksinit *)

(* typehash[h] of a Go map of slices: empty when there is no entry *)
TypehashLookup(typehash, h) ==
    IF HasKey(typehash, h) THEN Lookup(typehash, h) ELSE <<>>

InSeq(x, seq) == \E i \in 1 .. Len(seq) : seq[i] = x

(* the pass visiting every module, the first one included *)
AllOfModules(modules) == modules

(* modules[1:], the modules the pass visits *)
RestOfModules(modules) == Tail(modules)

(* the type of prev that typelink tl names: prev's own descriptor when     *)
(* prev has no typemap, else what prev's typemap holds for tl              *)
CollectedType(tms, prev, tl) ==
    IF tms[prev].nil
    THEN AddPtr(types(prev), Uintptr(tl))
    ELSE TypemapLookup(tms[prev], tl)

(* t's hash *)
HashOf(t) == Mem(t).hash

(* typehash with t added to the list of its hash, unless it is there *)
AddTypeTo(typehash, t, h) ==
    IF InSeq(t, TypehashLookup(typehash, h)) THEN typehash
    ELSE MapPut(typehash, h, Append(TypehashLookup(typehash, h), t))
AddType(typehash, t) == AddTypeTo(typehash, t, HashOf(t))

(* the loop labelled collect, from typelink i of prev on *)
RECURSIVE Collect(_, _, _, _)
Collect(tms, prev, i, typehash) ==
    IF i > Len(typelinks(prev)) THEN typehash
    ELSE Collect(tms, prev, i + 1,
                 AddType(typehash, CollectedType(tms, prev, typelinks(prev)[i])))

(* the loop over the candidates of t, from candidate i on: the first       *)
(* candidate typesEqual accepts, each tried with a seen map of its own;    *)
(* t itself when there is none.  [t, thrown]                               *)
RECURSIVE FirstEqual(_, _, _, _)
FirstEqual(tms, t, candidates, i) ==
    IF i > Len(candidates) THEN [t |-> t, thrown |-> FALSE]
    ELSE LET r == typesEqual(tms, t, candidates[i], EmptySeen)
         IN  IF r.thrown THEN [t |-> t, thrown |-> TRUE]
             ELSE IF r.res THEN [t |-> candidates[i], thrown |-> FALSE]
             ELSE FirstEqual(tms, t, candidates, i + 1)

(* the descriptor of md's first typelink, whatever i is *)
OwnTypeFirst(md, i) == AddPtr(types(md), Uintptr(typelinks(md)[1]))

(* md's own descriptor that its typelink i names *)
OwnType(md, i) == AddPtr(types(md), Uintptr(typelinks(md)[i]))

(* t entered for itself, the candidates left aside *)
CanonicalOwn(tms, t, typehash) == [t |-> t, thrown |-> FALSE]

(* the type to enter for t: the first equal candidate of t's hash, else t *)
Canonical(tms, t, typehash) ==
    FirstEqual(tms, t, TypehashLookup(typehash, HashOf(t)), 1)

(* the loop over md.typelinks that fills md.typemap, from typelink i on.   *)
(* [tms, thrown]                                                           *)
RECURSIVE FillTypemap(_, _, _, _)
FillTypemap(tms, md, i, typehash) ==
    IF i > Len(typelinks(md)) THEN [tms |-> tms, thrown |-> FALSE]
    ELSE LET m == Canonical(tms, OwnType(md, i), typehash)
         IN  IF m.thrown THEN [tms |-> tms, thrown |-> TRUE]
             ELSE FillTypemap([tms EXCEPT ![md].entries = MapPut(@, typelinks(md)[i], m.t)],
                              md, i + 1, typehash)

(* the if statement on md.typemap: the map made, pinned and filled *)
BuildTypemap(md, st, typehash, filled) ==
    [tms |-> filled.tms, typehash |-> typehash,
     pinned |-> Append(st.pinned, md), thrown |-> filled.thrown]

(* one round of the loop over the modules, typehash being what collect left *)
VisitModule(md, st, typehash) ==
    IF st.tms[md].nil
    THEN BuildTypemap(md, st, typehash,
                      FillTypemap([st.tms EXCEPT ![md] = EmptyMap], md, 1, typehash))
    ELSE [st EXCEPT !.typehash = typehash]

(* the loop over the modules, from mds[i] on, prev being the module before *)
RECURSIVE ModuleLoop(_, _, _, _)
ModuleLoop(mds, i, prev, st) ==
    IF i > Len(mds) \/ st.thrown THEN st
    ELSE ModuleLoop(mds, i + 1, mds[i],
                    VisitModule(mds[i], st, Collect(st.tms, prev, 1, st.typehash)))

typelinksinit ==
    /\ ~thrown /\ call = NoCall
    /\ IF nmods = 1
       THEN UNCHANGED <<typemap, pinnedTypemaps, thrown>>
       ELSE \E done \in {ModuleLoop(RestOfModules(activeModules), 1, activeModules[1],
                                     [tms |-> typemap, typehash |-> {},
                                      pinned |-> pinnedTypemaps, thrown |-> FALSE])} :
                /\ typemap' = done.tms
                /\ pinnedTypemaps' = done.pinned
                /\ thrown' = done.thrown
    /\ UNCHANGED <<image, layout, nmods, reflectOffs, call, pc, op>>

(* A module is appended to the firstmoduledata chain *)
LinkModule ==
    /\ ~thrown /\ call = NoCall
    /\ nmods < MaxModules
    /\ nmods' = nmods + 1
    /\ UNCHANGED <<image, layout, typemap, pinnedTypemaps, reflectOffs, call, pc, op, thrown>>

---------------------------------------------------------------------------
(* Initial states *)

NoTypemaps == [m \in AllModules |-> NilMap]
EmptyReflectOffs == [lock |-> 0, next |-> -1, m |-> {}, minv |-> {}]
Goroutines == 1 .. NumGoroutines
Idle == [g \in Goroutines |-> "idle"]
NoOps == [g \in Goroutines |-> NoCall]

InitRest ==
    /\ typemap = NoTypemaps
    /\ pinnedTypemaps = <<>>
    /\ reflectOffs = EmptyReflectOffs
    /\ call = NoCall
    /\ pc = Idle
    /\ op = NoOps
    /\ thrown = FALSE

Init ==
    /\ image \in [AllModules -> 1 .. NumImages]
    /\ layout = 1
    /\ nmods = 1
    /\ InitRest

Next == LinkModule \/ typelinksinit

Spec == Init /\ [][Next]_vars

---------------------------------------------------------------------------
(* The reflectOffs side table.  reflect.addReflectOff pins ptr under a     *)
(* fresh negative id, or answers the id ptr already has.                   *)

HeapAddrs == {HeapBase + i : i \in 1 .. MaxRegistered}

addReflectOff(ptr) ==
    IF HasKey(reflectOffs.minv, ptr) THEN reflectOffs
    ELSE [reflectOffs EXCEPT !.next = @ - 1,
                             !.m = MapPut(@, reflectOffs.next, ptr),
                             !.minv = MapPut(@, ptr, reflectOffs.next)]

AddReflectOff ==
    /\ ~thrown /\ call = NoCall
    /\ \E ptr \in HeapAddrs :
          /\ Cardinality(reflectOffs.m) < MaxRegistered \/ HasKey(reflectOffs.minv, ptr)
          /\ reflectOffs' = addReflectOff(ptr)
    /\ UNCHANGED <<image, layout, nmods, typemap, pinnedTypemaps, call, pc, op, thrown>>

---------------------------------------------------------------------------
(* Calls of the resolvers with a context pointer and an offset.  call      *)
(* keeps the last call and its result; nothing follows a recorded call.    *)

(* context pointers: the first and the last address of each module's type  *)
(* data, the address after it, nil and a heap address                      *)
Contexts ==
    {0, HeapBase + 1}
        \cup {types(m) : m \in AllModules}
        \cup {etypes(m) - 1 : m \in AllModules}
        \cup {etypes(m) : m \in AllModules}
Offsets == (0 - MaxOff) .. MaxOff

Called3(fn, ptr, off, res) == [fn |-> fn, ptr |-> ptr, off |-> off, res |-> res]

CallResolveNameOff ==
    /\ ~thrown /\ call = NoCall
    /\ \E ptr \in Contexts, off \in Offsets :
          call' = Called3("resolveNameOff", ptr, off, resolveNameOff(ptr, off))
    /\ UNCHANGED <<image, layout, nmods, typemap, pinnedTypemaps, reflectOffs, pc, op, thrown>>

CallResolveTypeOff ==
    /\ ~thrown /\ call = NoCall
    /\ \E ptr \in Contexts, off \in Offsets :
          call' = Called3("resolveTypeOff", ptr, off, resolveTypeOff(typemap, ptr, off))
    /\ UNCHANGED <<image, layout, nmods, typemap, pinnedTypemaps, reflectOffs, pc, op, thrown>>

CallTextOff ==
    /\ ~thrown /\ call = NoCall
    /\ \E ptr \in Contexts, off \in Offsets :
          call' = Called3("textOff", ptr, off, textOff(ptr, off))
    /\ UNCHANGED <<image, layout, nmods, typemap, pinnedTypemaps, reflectOffs, pc, op, thrown>>

InitResolve ==
    /\ image = [m \in AllModules |-> 1]
    /\ layout \in 1 .. NumLayouts
    /\ nmods \in AllModules
    /\ InitRest

NextResolve ==
    \/ AddReflectOff
    \/ typelinksinit
    \/ CallResolveNameOff
    \/ CallResolveTypeOff
    \/ CallTextOff

SpecResolve == InitResolve /\ [][NextResolve]_vars

---------------------------------------------------------------------------
(* Calls of typesEqual and pkgpath on the descriptors of the first two     *)
(* modules                                                                 *)

TypesOf(m) == {types(m) + Images[image[m]].typelinks[i] :
                  i \in 1 .. Len(Images[image[m]].typelinks)}
SlotsOf(m) == {types(m) + T(i) : i \in 1 .. Len(Images[image[m]].types)}
Operands == SlotsOf(1) \cup SlotsOf(2)

CallTypesEqual ==
    /\ ~thrown /\ call = NoCall
    /\ \E t \in Operands, v \in Operands :
          call' = [fn |-> "typesEqual", t |-> t, v |-> v,
                   res |-> typesEqual(typemap, t, v, EmptySeen)]
    /\ UNCHANGED <<image, layout, nmods, typemap, pinnedTypemaps, reflectOffs, pc, op, thrown>>

CallPkgpath ==
    /\ ~thrown /\ call = NoCall
    /\ \E t \in Operands :
          call' = [fn |-> "pkgpath", t |-> t, res |-> pkgpath(t)]
    /\ UNCHANGED <<image, layout, nmods, typemap, pinnedTypemaps, reflectOffs, pc, op, thrown>>

InitType ==
    /\ image \in [AllModules -> 1 .. NumImages]
    /\ \A m \in AllModules : m > 2 => image[m] = 1
    /\ layout = 1
    /\ nmods = MaxModules
    /\ InitRest

NextType == typelinksinit \/ CallTypesEqual \/ CallPkgpath

SpecType == InitType /\ [][NextType]_vars

---------------------------------------------------------------------------
(* Structural equality of descriptors, stated on the images: the largest   *)
(* relation on descriptors <<image, slot>> in which related descriptors    *)
(* agree on everything that is not a component type and have related       *)
(* component types.                                                        *)

Nodes == UNION {{<<k, i>> : i \in 1 .. Len(Images[k].types)} : k \in 1 .. NumImages}
DescOf(n) == Images[n[1]].types[n[2]]
NameAt(off) == IF off = 0 THEN <<>> ELSE NameTable[off].name
TagAt(off) == NameTable[off].tag
PkgAt(off) == IF NameTable[off].pkgPath = 0 THEN <<>> ELSE NameAt(NameTable[off].pkgPath)
StringOf(d) == IF HasFlag(d.tflag, tflagExtraStar) THEN Tail(NameAt(d.str)) ELSE NameAt(d.str)
Masked(d) == d.kind % (kindMask + 1)

SameHeader(a, b) ==
    /\ Masked(a) = Masked(b)
    /\ StringOf(a) = StringOf(b)
    /\ HasFlag(a.tflag, tflagUncommon) = HasFlag(b.tflag, tflagUncommon)
    /\ HasFlag(a.tflag, tflagUncommon) => NameAt(a.upkg) = NameAt(b.upkg)

SameFields(a, b) ==
    /\ Len(a.fields) = Len(b.fields)
    /\ NameAt(a.pkgPath) = NameAt(b.pkgPath)
    /\ \A i \in 1 .. Len(a.fields) :
          /\ NameAt(a.fields[i].name) = NameAt(b.fields[i].name)
          /\ TagAt(a.fields[i].name) = TagAt(b.fields[i].name)
          /\ a.fields[i].offsetAnon = b.fields[i].offsetAnon

SameMethods(a, b) ==
    /\ Len(a.mhdr) = Len(b.mhdr)
    /\ NameAt(a.pkgPath) = NameAt(b.pkgPath)
    /\ \A i \in 1 .. Len(a.mhdr) :
          /\ NameAt(a.mhdr[i].name) = NameAt(b.mhdr[i].name)
          /\ PkgAt(a.mhdr[i].name) = PkgAt(b.mhdr[i].name)

SameData(a, b, kind) ==
    CASE kind = kindArray -> a.len = b.len
      [] kind = kindChan -> a.dir = b.dir
      [] kind = kindFunc -> a.inCount = b.inCount /\ a.outCount = b.outCount
      [] kind = kindInterface -> SameMethods(a, b)
      [] kind = kindStruct -> SameFields(a, b)
      [] OTHER -> TRUE

(* the typeOffs of the component types of d, in order *)
Components(d, kind) ==
    CASE kind \in {kindArray, kindChan, kindPtr, kindSlice} -> <<d.elem>>
      [] kind = kindMap -> <<d.key, d.elem>>
      [] kind = kindFunc -> SubSeq(d.inl, 1, d.inCount + (d.outCount % variadicBit))
      [] kind = kindInterface -> [i \in 1 .. Len(d.mhdr) |-> d.mhdr[i].ityp]
      [] kind = kindStruct -> [i \in 1 .. Len(d.fields) |-> d.fields[i].typ]
      [] OTHER -> <<>>

Alike(p) ==
    /\ SameHeader(DescOf(p[1]), DescOf(p[2]))
    /\ SameData(DescOf(p[1]), DescOf(p[2]), Masked(DescOf(p[1])))

ComponentPairs(p, ca, cb) ==
    {<< <<p[1][1], ca[i] - NameSlots>>, <<p[2][1], cb[i] - NameSlots>> >> : i \in 1 .. Len(ca)}
Related(p) ==
    ComponentPairs(p, Components(DescOf(p[1]), Masked(DescOf(p[1]))),
                      Components(DescOf(p[2]), Masked(DescOf(p[2]))))

RECURSIVE Refine(_)
Refine(E) ==
    IF \A p \in E : Related(p) \subseteq E THEN E
    ELSE Refine({p \in E : Related(p) \subseteq E})

SameType == Refine({p \in Nodes \X Nodes : Alike(p)})

NodeOf(t) == <<image[t \div ModStride], (t % ModStride) - NameSlots>>
StructEq(t, v) == <<NodeOf(t), NodeOf(v)>> \in SameType

---------------------------------------------------------------------------
(* Goroutines calling the resolvers with a pointer that lies in no module, *)
(* and reflect registering pointers: the path through reflectOffs, one     *)
(* step for each statement that touches the lock or the map.               *)
(* pc[g]: idle, lock (about to call reflectOffsLock), read / write (lock   *)
(* taken, the map not yet touched), unlock (about to call                  *)
(* reflectOffsUnlock), check (about to test what was read), returned,      *)
(* aborted.                                                                *)

ConcOffsets == (0 - MaxRegistered - 1) .. 0
ConcContexts == {HeapBase + 1}

(* what registrations of the first k heap addresses leave in reflectOffs *)
RECURSIVE Registered(_)
Registered(k) ==
    IF k = 0 THEN EmptyReflectOffs
    ELSE [Registered(k - 1) EXCEPT !.next = @ - 1,
                                   !.m = MapPut(@, Registered(k - 1).next, HeapBase + k),
                                   !.minv = MapPut(@, HeapBase + k, Registered(k - 1).next)]

Step(g, to) == pc' = [pc EXCEPT ![g] = to]

(* the call up to the registry: off == 0 returns at once (not in textOff), *)
(* the search over the modules finds none                                  *)
BeginResolve(g) ==
    /\ ~thrown /\ pc[g] = "idle"
    /\ \E fn \in {"resolveNameOff", "resolveTypeOff", "textOff"},
          ptr \in ConcContexts, off \in ConcOffsets :
          /\ FindModule(ptr) = 0
          /\ IF off = 0 /\ fn # "textOff"
             THEN /\ op' = [op EXCEPT ![g] = Called3(fn, ptr, off, Ret(0))]
                  /\ Step(g, "returned")
             ELSE /\ op' = [op EXCEPT ![g] = Called3(fn, ptr, off, NoCall)]
                  /\ Step(g, "lock")
    /\ UNCHANGED <<image, layout, nmods, typemap, pinnedTypemaps, reflectOffs, call, thrown>>

BeginAddReflectOff(g) ==
    /\ ~thrown /\ pc[g] = "idle"
    /\ \E ptr \in HeapAddrs :
          /\ Cardinality(reflectOffs.m) < MaxRegistered \/ HasKey(reflectOffs.minv, ptr)
          /\ op' = [op EXCEPT ![g] = Called3("addReflectOff", ptr, 0, NoCall)]
    /\ Step(g, "lock")
    /\ UNCHANGED <<image, layout, nmods, typemap, pinnedTypemaps, reflectOffs, call, thrown>>

(* a lock that is taken whether or not it is free *)
reflectOffsLockNoWait(g) ==
    /\ ~thrown /\ pc[g] = "lock"
    /\ reflectOffs' = [reflectOffs EXCEPT !.lock = g]
    /\ Step(g, IF op[g].fn = "addReflectOff" THEN "write" ELSE "read")
    /\ UNCHANGED <<image, layout, nmods, typemap, pinnedTypemaps, call, op, thrown>>

reflectOffsLock(g) ==
    /\ ~thrown /\ pc[g] = "lock"
    /\ reflectOffs.lock = 0
    /\ reflectOffs' = [reflectOffs EXCEPT !.lock = g]
    /\ Step(g, IF op[g].fn = "addReflectOff" THEN "write" ELSE "read")
    /\ UNCHANGED <<image, layout, nmods, typemap, pinnedTypemaps, call, op, thrown>>

(* res, found := reflectOffs.m[int32(off)] *)
ReadReflectOffs(g) ==
    /\ ~thrown /\ pc[g] = "read"
    /\ op' = [op EXCEPT ![g].res =
                 IF HasKey(reflectOffs.m, op[g].off)
                 THEN Ret(Lookup(reflectOffs.m, op[g].off))
                 ELSE Throw("base pointer out of range")]
    /\ Step(g, "unlock")
    /\ UNCHANGED <<image, layout, nmods, typemap, pinnedTypemaps, reflectOffs, call, thrown>>

WriteReflectOffs(g) ==
    /\ ~thrown /\ pc[g] = "write"
    /\ reflectOffs' = addReflectOff(op[g].ptr)
    /\ op' = [op EXCEPT ![g].res = Ret(Lookup(addReflectOff(op[g].ptr).minv, op[g].ptr))]
    /\ Step(g, "unlock")
    /\ UNCHANGED <<image, layout, nmods, typemap, pinnedTypemaps, call, thrown>>

reflectOffsUnlock(g) ==
    /\ ~thrown /\ pc[g] = "unlock"
    /\ reflectOffs' = [reflectOffs EXCEPT !.lock = 0]
    /\ Step(g, "check")
    /\ UNCHANGED <<image, layout, nmods, typemap, pinnedTypemaps, call, op, thrown>>

(* if !found { throw(...) }; return *)
CheckFound(g) ==
    /\ ~thrown /\ pc[g] = "check"
    /\ IF op[g].res.tag = "throw"
       THEN Step(g, "aborted") /\ thrown' = TRUE
       ELSE Step(g, "returned") /\ UNCHANGED thrown
    /\ UNCHANGED <<image, layout, nmods, typemap, pinnedTypemaps, reflectOffs, call, op>>

InitConc ==
    /\ image = [m \in AllModules |-> 1]
    /\ layout = 1
    /\ nmods = MaxModules
    /\ typemap = NoTypemaps
    /\ pinnedTypemaps = <<>>
    /\ reflectOffs \in {Registered(k) : k \in 0 .. MaxRegistered}
    /\ call = NoCall
    /\ pc = Idle
    /\ op = NoOps
    /\ thrown = FALSE

NextConc ==
    \E g \in Goroutines :
        \/ BeginResolve(g)
        \/ BeginAddReflectOff(g)
        \/ reflectOffsLock(g)
        \/ ReadReflectOffs(g)
        \/ WriteReflectOffs(g)
        \/ reflectOffsUnlock(g)
        \/ CheckFound(g)

SpecConc == InitConc /\ [][NextConc]_vars

(* Claims about the registry lock, under SpecConc                          *)

InCriticalSection(g) == pc[g] \in {"read", "write", "unlock"}

\* C7: a goroutine that is about to read or write reflectOffs.m, or has done
\* so and not yet unlocked, holds reflectOffs.lock; no two goroutines are
\* there at once; and a goroutine that has left reflectOffsUnlock, whether it
\* then returns or throws, does not hold the lock.
C7_RegistryUnderLock ==
    /\ \A g \in Goroutines : InCriticalSection(g) => reflectOffs.lock = g
    /\ \A g \in Goroutines, h \in Goroutines :
          (InCriticalSection(g) /\ InCriticalSection(h)) => g = h
    /\ \A g \in Goroutines :
          pc[g] \in {"check", "returned", "aborted"} => reflectOffs.lock # g

C7_Witness ==
    \E g \in Goroutines, h \in Goroutines :
        /\ pc[g] = "aborted"
        /\ op[g].fn = "resolveTypeOff"
        /\ pc[h] = "read"
        /\ reflectOffs.lock = h

---------------------------------------------------------------------------
(* Claims about typesEqual and pkgpath, under SpecType                     *)

IsSelfReferential(t) ==
    /\ KindOf(Mem(t)) = kindStruct
    /\ \E i \in 1 .. Len(Mem(t).fields) :
          LET f == Ref(t, Mem(t).fields[i].typ)
          IN  KindOf(Mem(f)) = kindPtr /\ Ref(f, Mem(f).elem) = t

SameShape(t, v) ==
    /\ image[t \div ModStride] = image[v \div ModStride]
    /\ t % ModStride = v % ModStride

\* C2: every call of typesEqual returns (it does not throw, it makes at most
\* one call for the pair asked and one per component of a pair it put into
\* seen, and seen holds only pairs of descriptors of the two modules), and
\* for two separately built descriptors of the same shape, self-referential
\* structs among them, it returns true.
C2_TerminatesAndSelfRefEqual ==
    call.fn = "typesEqual" =>
        /\ ~call.res.thrown
        /\ call.res.seen \subseteq Operands \X Operands
        /\ call.res.calls <= 1 + 2 * Cardinality(call.res.seen)
        /\ SameShape(call.t, call.v) => call.res.res

C2_Witness ==
    /\ call.fn = "typesEqual"
    /\ call.t # call.v
    /\ SameShape(call.t, call.v)
    /\ IsSelfReferential(call.t)
    /\ IsSelfReferential(call.v)
    /\ <<call.t, call.v>> \in call.res.seen
    /\ call.res.calls > Cardinality(call.res.seen)
    /\ call.res.res

\* C8: called with an empty seen, typesEqual returns true exactly when the
\* two descriptors are structurally equal: they are related by the largest
\* relation whose pairs agree on kind, string, uncommon package path and the
\* data of their kind, and have related component types.
C8_TrueIffStructurallyEqual ==
    call.fn = "typesEqual" =>
        /\ ~call.res.thrown
        /\ call.res.res = StructEq(call.t, call.v)

C8_Witness ==
    /\ call.fn = "typesEqual"
    /\ call.t # call.v
    /\ KindOf(Mem(call.t)) = kindFunc
    /\ Cardinality(call.res.seen) > 1
    /\ ~call.res.res
    /\ ~StructEq(call.t, call.v)

PkgPathName(off) == IF off = 0 THEN <<>> ELSE NameTable[off].name

\* C5 as stated: for a struct or an interface pkgpath returns the package
\* path of the kind's own data, whether or not tflagUncommon is set.
C5_TrailerPathRegardlessOfFlag ==
    (call.fn = "pkgpath" /\ KindOf(Mem(call.t)) \in {kindStruct, kindInterface}) =>
        call.res = PkgPathName(Mem(call.t).pkgPath)

\* C5, amended: with tflagUncommon set pkgpath returns the package path of
\* the uncommon data, for every kind; without it, it returns the package
\* path of the kind's own data for a struct or an interface, and the empty
\* string for every other kind.
C5_UncommonPathFirst ==
    call.fn = "pkgpath" =>
        call.res =
            IF HasFlag(Mem(call.t).tflag, tflagUncommon)
            THEN PkgPathName(Mem(call.t).upkg)
            ELSE IF KindOf(Mem(call.t)) \in {kindStruct, kindInterface}
                 THEN PkgPathName(Mem(call.t).pkgPath)
                 ELSE <<>>

C5_Witness ==
    /\ call.fn = "pkgpath"
    /\ KindOf(Mem(call.t)) = kindStruct
    /\ HasFlag(Mem(call.t).tflag, tflagUncommon)
    /\ PkgPathName(Mem(call.t).upkg) # PkgPathName(Mem(call.t).pkgPath)
    /\ call.res = PkgPathName(Mem(call.t).upkg)

---------------------------------------------------------------------------
(* Claims about the resolvers, under SpecResolve                           *)

Resolvers == {"resolveNameOff", "resolveTypeOff", "textOff"}

(* the call was made with a context pointer in no module and an offset    *)
(* the registry has no entry for                                           *)
Unowned ==
    /\ call.fn \in Resolvers
    /\ FindModule(call.ptr) = 0
    /\ ~HasKey(reflectOffs.m, call.off)

\* C3 as stated: for every offset, a resolver called with a context pointer
\* in no module and an offset absent from the registry throws.
C3_FatalForEveryOffset == Unowned => call.res.tag = "throw"

\* C3, amended: resolveNameOff and resolveTypeOff called with a context
\* pointer in no module and a nonzero offset absent from the registry throw,
\* and textOff does so for every offset; with offset 0, resolveNameOff and
\* resolveTypeOff return the empty name and nil without a throw.
C3_FatalForNonzeroOffset ==
    Unowned =>
        IF call.off = 0 /\ call.fn # "textOff"
        THEN call.res = Ret(0)
        ELSE call.res.tag = "throw"

C3_Witness ==
    /\ Unowned
    /\ call.fn = "resolveNameOff"
    /\ call.off # 0
    /\ reflectOffs.m # {}
    /\ call.res.tag = "throw"

\* C4 as stated, for the nonzero offsets: resolveNameOff and resolveTypeOff
\* called with a context pointer inside a module and an offset without an
\* entry in the module's typemap either throw or return types + off, an
\* address inside the module's [types, etypes).
C4_InRangeOrFatal ==
    (/\ call.fn \in {"resolveNameOff", "resolveTypeOff"}
     /\ FindModule(call.ptr) # 0
     /\ call.off # 0
     /\ call.fn = "resolveTypeOff" => TypemapLookup(typemap[FindModule(call.ptr)], call.off) = 0)
        => \/ call.res.tag = "throw"
           \/ /\ call.res.val = types(FindModule(call.ptr)) + call.off
              /\ call.res.val >= types(FindModule(call.ptr))
              /\ call.res.val < etypes(FindModule(call.ptr))

\* C6 as stated: an address textOff returns for a module with more than one
\* text section is baseaddr + (off - vaddr) of the section whose
\* [vaddr, vaddr + length) holds off; for a module with no section or one
\* it is text + off.
C6_HalfOpenSection ==
    (call.fn = "textOff" /\ FindModule(call.ptr) # 0 /\ call.res.tag = "ret") =>
        IF Len(textsectmap(FindModule(call.ptr))) > 1
        THEN \A i \in 1 .. Len(textsectmap(FindModule(call.ptr))) :
                (/\ call.off >= textsectmap(FindModule(call.ptr))[i].vaddr
                 /\ call.off < textsectmap(FindModule(call.ptr))[i].vaddr
                                  + textsectmap(FindModule(call.ptr))[i].length)
                    => call.res.val = textsectmap(FindModule(call.ptr))[i].baseaddr
                                        + (call.off - textsectmap(FindModule(call.ptr))[i].vaddr)
        ELSE call.res.val = text(FindModule(call.ptr)) + call.off

---------------------------------------------------------------------------
(* Claims about typelinksinit, under Spec                                  *)

(* typelinksinit has run over the modules linked now: there are two or    *)
(* more and each but the first has its typemap                             *)
PassDone == nmods >= 2 /\ \A m \in 2 .. nmods : ~typemap[m].nil

Linked == 1 .. nmods
Links(m) == 1 .. Len(typelinks(m))
Listed(m, i) == types(m) + typelinks(m)[i]
Resolved(m, i) == resolveTypeOff(typemap, types(m), typelinks(m)[i])

\* C1: once typelinksinit has run over two or more modules, for structurally
\* equal descriptors listed in the typelinks of two distinct modules,
\* resolveTypeOff with a pointer into each module and that module's offset of
\* the descriptor returns one and the same address.
C1_EqualTypesResolveAlike ==
    PassDone =>
        \A m1 \in Linked, m2 \in Linked :
            m1 # m2 =>
                \A i \in Links(m1), j \in Links(m2) :
                    StructEq(Listed(m1, i), Listed(m2, j)) =>
                        /\ Resolved(m1, i).tag = "ret"
                        /\ Resolved(m1, i) = Resolved(m2, j)

C1_Witness ==
    /\ PassDone
    /\ nmods >= 3
    /\ \E i \in Links(2), j \in Links(3) :
          /\ KindOf(Mem(Listed(2, i))) = kindStruct
          /\ StructEq(Listed(2, i), Listed(3, j))
          /\ Resolved(3, j).val = Listed(2, i)
          /\ Resolved(2, i).val = Listed(2, i)

\* C9: a typemap, once built, is never changed by a later step (a later pass
\* of typelinksinit included), the first module never gets a typemap, and
\* typelinksinit with a single module linked changes nothing.
C9_TypemapBuiltOnce ==
    [][/\ \A m \in AllModules : ~typemap[m].nil => typemap'[m] = typemap[m]
       /\ typemap'[1].nil
       /\ (nmods = 1 /\ nmods' = 1) => UNCHANGED vars]_vars

C9_Witness ==
    /\ nmods >= 3
    /\ typemap[1].nil
    /\ ~typemap[2].nil
    /\ typemap[3].nil
    /\ pinnedTypemaps = <<2>>

(* the module whose type data holds address t *)
Holder(t) == t \div ModStride

\* C10: every value of a module's typemap is the module's own descriptor at
\* the key's offset or a descriptor that lies in a module linked earlier, and
\* resolveTypeOff with that descriptor's module and its own offset returns
\* the descriptor itself.
C10_TypemapValuesCanonical ==
    \A m \in Linked :
        ~typemap[m].nil =>
            \A e \in typemap[m].entries :
                /\ e[2] = types(m) + e[1] \/ Holder(e[2]) < m
                /\ Holder(e[2]) \in Linked
                /\ resolveTypeOff(typemap, e[2], e[2] - types(Holder(e[2]))) = Ret(e[2])

C10_Witness ==
    /\ nmods >= 3
    /\ ~typemap[2].nil
    /\ ~typemap[3].nil
    /\ \E e \in typemap[3].entries :
          /\ Holder(e[2]) = 2
          /\ HasKey(typemap[2].entries, e[2] - types(2))
    /\ \E e \in typemap[3].entries : Holder(e[2]) = 1
    /\ \E e \in typemap[3].entries : Holder(e[2]) = 3

====
